---------------------------- MODULE Spec2Model ----------------------------
(***************************************************************************)
(* A model of newstate.c: a Lua C module that owns a second lua_State (the *)
(* sandbox), loads chunks into it, calls them and copies plain values      *)
(* between the caller's state L and the sandbox state->L.                  *)
(*                                                                         *)
(* The two Lua states are named "L" (the caller) and "S" (state->L).       *)
(* A Lua stack is a sequence of values, a table lives in a heap cell that  *)
(* records the state that allocated it, and every C handler is translated  *)
(* statement by statement over a machine record                            *)
(*     m = [stk |-> [L |-> stack, S |-> stack], heap |-> cells, rc |-> n]. *)
(***************************************************************************)
EXTENDS Integers, Sequences, FiniteSets, TLC

\* ------------------------------------------------------------ bounds ----
\* the largest number of arguments a caller passes after the handle
MaxArgs == 2

\* ------------------------------------------------------- Lua values ----
Nil == [t |-> "nil"]
Bool(b) == [t |-> "boolean", b |-> b]
LightUD(p) == [t |-> "lightuserdata", p |-> p]
\* A number is the integer hi * 2^53 + lo, of subtype "integer" or "float".
\* Before Lua 5.3 every number is a float.
Integer(hi, lo) == [t |-> "number", sub |-> "integer", hi |-> hi, lo |-> lo]
Float(hi, lo) == [t |-> "number", sub |-> "float", hi |-> hi, lo |-> lo]
\* A string is its bytes, in runs; the zero byte is the run NUL.
NUL == "\\0"
Str(s) == [t |-> "string", s |-> s]
TableRef(id) == [t |-> "table", id |-> id]
Function(f) == [t |-> "function", f |-> f]
Userdata(u) == [t |-> "userdata", u |-> u]
Thread == [t |-> "thread"]

\* lua_type / lua_typename
lua_type(v) == v.t

\* lua_tonumber: the value as a lua_Number, a double. An integer of 2^53 or
\* more is rounded to the nearest double, ties to the even mantissa; the
\* doubles of [2^53, 2^54) are the even integers.
lua_tonumber(v) ==
    IF v.sub = "float" \/ v.hi = 0 THEN Float(v.hi, v.lo)
    ELSE LET q == v.lo \div 2
             r == v.lo % 2
         IN  IF r = 0 THEN Float(v.hi, v.lo)
             ELSE IF q % 2 = 0 THEN Float(v.hi, 2 * q)
             ELSE Float(v.hi, 2 * (q + 1))

\* lua_tolstring: the bytes and their count (the runs of the string)
lua_tolstring(v) == [p |-> v.s, len |-> Len(v.s)]

\* ------------------------------------------------------- stack API -----
EmptyHeap == [i \in {} |-> 0]

Machine(Ls, Ss, h) == [stk |-> [L |-> Ls, S |-> Ss], heap |-> h, rc |-> 0]

lua_gettop(m, who) == Len(m.stk[who])

\* the position of index idx (positive from the bottom, negative from the top)
AbsIndex(m, who, idx) == IF idx > 0 THEN idx ELSE Len(m.stk[who]) + 1 + idx

index2value(m, who, idx) == m.stk[who][AbsIndex(m, who, idx)]

Push(m, who, v) == [m EXCEPT !.stk[who] = Append(@, v)]

lua_pushnil(m, who) == Push(m, who, Nil)
lua_pushboolean(m, who, b) == Push(m, who, Bool(b))
lua_pushlightuserdata(m, who, p) == Push(m, who, LightUD(p))
lua_pushnumber(m, who, n) == Push(m, who, n)
lua_pushinteger(m, who, i) == Push(m, who, Integer(0, i))

\* lua_pushlstring copies exactly len bytes, zero bytes included
lua_pushlstring(m, who, p, len) == Push(m, who, Str(SubSeq(p, 1, len)))

\* lua_pushfstring("cannot exchange <%s> value", lua_typename(t))
lua_pushfstring(m, who, tname) ==
    Push(m, who, Str(<<"cannot exchange <", tname, "> value">>))

lua_pop(m, who, n) ==
    [m EXCEPT !.stk[who] = SubSeq(@, 1, Len(@) - n)]

lua_settop(m, who, n) ==
    [m EXCEPT !.stk[who] = SubSeq(@, 1, n)]

\* the least cell of the heap that is not in use
FreshId(h) == CHOOSE i \in 1..(Cardinality(DOMAIN h) + 1) : i \notin DOMAIN h

\* lua_createtable: a new empty table, allocated in the state it is called on
lua_createtable(m, who) ==
    LET id == FreshId(m.heap)
        h  == [i \in DOMAIN m.heap \cup {id} |->
                 IF i = id THEN [owner |-> who, ent |-> <<>>] ELSE m.heap[i]]
    IN  Push([m EXCEPT !.heap = h], who, TableRef(id))

\* Raw equality of two values of one state (numbers by their value)
RawEq(a, b) ==
    IF a.t = "number" /\ b.t = "number" THEN a.hi = b.hi /\ a.lo = b.lo
    ELSE a = b

\* A float key with an integer value is stored as that integer (5.3 on)
NormKey(k) == IF k.t = "number" THEN [k EXCEPT !.sub = "integer"] ELSE k

\* lua_rawset(idx): t[k] = v for the key at -2 and the value at -1, both popped
lua_rawset(m, who, idx) ==
    LET tb  == index2value(m, who, idx)
        k   == NormKey(index2value(m, who, -2))
        v   == index2value(m, who, -1)
        ent == m.heap[tb.id].ent
        at  == {i \in 1..Len(ent) : RawEq(ent[i].k, k)}
        new == IF at = {} THEN Append(ent, [k |-> k, v |-> v])
               ELSE [i \in 1..Len(ent) |->
                       IF i \in at THEN [k |-> ent[i].k, v |-> v] ELSE ent[i]]
    IN  lua_pop([m EXCEPT !.heap[tb.id].ent = new], who, 2)

\* lua_next(idx): pops a key and pushes the next pair of the table at idx,
\* in the table's traversal order; pushes nothing after the last pair.
lua_next(m, who, idx) ==
    LET tb  == index2value(m, who, idx)
        key == index2value(m, who, -1)
        ent == m.heap[tb.id].ent
        pos == IF key = Nil THEN 0
               ELSE CHOOSE i \in 1..Len(ent) : RawEq(ent[i].k, key)
        m1  == lua_pop(m, who, 1)
    IN  IF pos < Len(ent)
        THEN [m |-> Push(Push(m1, who, ent[pos + 1].k), who, ent[pos + 1].v),
              more |-> TRUE]
        ELSE [m |-> m1, more |-> FALSE]

\* ---------------------------------------------------------- moveit -----
\* moveit(src, dst, idx, eoi): copies the values idx..eoi of the stack of src
\* onto the stack of dst. The result is the machine after the call, with the
\* returned int in rc.
RECURSIVE moveit(_, _, _, _, _)
RECURSIVE moveit_pairs(_, _, _, _)

\* case LUA_TTABLE, after lua_createtable and lua_pushnil: the while loop
\* over lua_next(src, idx)
moveit_pairs(m, src, dst, idx) ==
    LET n == lua_next(m, src, idx)
    IN  IF ~n.more THEN [n.m EXCEPT !.rc = 0]
        ELSE LET r == moveit(n.m, src, dst, -2, -1)
             IN  IF r.rc # 0 THEN [r EXCEPT !.rc = 2]
                 ELSE moveit_pairs(lua_pop(lua_rawset(r, dst, -3), src, 1),
                                   src, dst, idx)

\* a variant of moveit_table: the reference to the source's table is pushed
\* on dst, as lua_xmove would, and no table is created
moveit_table_shared(m, src, dst, idx) ==
    [Push(m, dst, index2value(m, src, idx)) EXCEPT !.rc = 0]

\* case LUA_TTABLE
moveit_table(m, src, dst, idx) ==
    LET m1   == lua_createtable(m, dst)
        m2   == lua_pushnil(m1, src)
        idx1 == IF idx < 0 THEN idx - 1 ELSE idx
    IN  moveit_pairs(m2, src, dst, idx1)

\* default: the value cannot be exchanged; false, the message and -1 are
\* pushed on the stack of src
moveit_default(m, src, dst, idx) ==
    LET t  == lua_type(index2value(m, src, idx))
        m1 == lua_pushboolean(m, src, FALSE)
        m2 == lua_pushfstring(m1, src, t)
        m3 == lua_pushinteger(m2, src, -1)
    IN  [m3 EXCEPT !.rc = 3]

\* a variant of moveit_scalar: a nil is not copied
moveit_scalar_skips_nil(m, src, dst, idx) ==
    LET v == index2value(m, src, idx)
        t == lua_type(v)
    IN  CASE t = "nil" -> m
          [] t = "boolean" -> lua_pushboolean(m, dst, v.b)
          [] t = "lightuserdata" -> lua_pushlightuserdata(m, dst, v.p)
          [] t = "number" -> lua_pushnumber(m, dst, lua_tonumber(v))
          [] t = "string" ->
                lua_pushlstring(m, dst, lua_tolstring(v).p, lua_tolstring(v).len)

\* the scalar cases of the switch
moveit_scalar(m, src, dst, idx) ==
    LET v == index2value(m, src, idx)
        t == lua_type(v)
    IN  CASE t = "nil" -> lua_pushnil(m, dst)
          [] t = "boolean" -> lua_pushboolean(m, dst, v.b)
          [] t = "lightuserdata" -> lua_pushlightuserdata(m, dst, v.p)
          [] t = "number" -> lua_pushnumber(m, dst, lua_tonumber(v))
          [] t = "string" ->
                lua_pushlstring(m, dst, lua_tolstring(v).p, lua_tolstring(v).len)

moveit(m, src, dst, idx, eoi) ==
    IF idx > eoi THEN [m EXCEPT !.rc = 0]
    ELSE LET t == lua_type(index2value(m, src, idx))
         IN  IF t \in {"nil", "boolean", "lightuserdata", "number", "string"}
             THEN moveit(moveit_scalar(m, src, dst, idx), src, dst, idx + 1, eoi)
             ELSE IF t = "table"
             THEN LET r == moveit_table(m, src, dst, idx)
                  IN  IF r.rc # 0 THEN r
                      ELSE moveit(r, src, dst, idx + 1, eoi)
             ELSE moveit_default(m, src, dst, idx)

\* ------------------------------------------------- inputs of the model --
\* A table constructor: the pairs it stores, in traversal order. Build runs
\* it in a state (lua_createtable, then one lua_rawset per pair).
Tmpl(ent) == [t |-> "tmpl", ent |-> ent]
Pair(k, v) == [k |-> k, v |-> v]

RECURSIVE Build(_, _, _)
RECURSIVE BuildPairs(_, _, _, _)
BuildPairs(m, who, ent, i) ==
    IF i > Len(ent) THEN m
    ELSE LET mk == Build(m, who, ent[i].k)
             mv == Build(mk, who, ent[i].v)
         IN  \* the key and the value are on the stack, above the table
             IF lua_gettop(mv, who) = lua_gettop(m, who) + 2
             THEN BuildPairs(lua_rawset(mv, who, -3), who, ent, i + 1)
             ELSE mv

Build(m, who, x) ==
    IF x.t = "tmpl" THEN BuildPairs(lua_createtable(m, who), who, x.ent, 1)
    ELSE Push(m, who, x)

RECURSIVE BuildAll(_, _, _, _)
BuildAll(m, who, xs, i) ==
    IF i > Len(xs) THEN m
    ELSE LET m1 == Build(m, who, xs[i])
         IN  \* each constructor leaves one value on the stack
             IF lua_gettop(m1, who) = lua_gettop(m, who) + 1
             THEN BuildAll(m1, who, xs, i + 1)
             ELSE m1

\* 2^53 + 1, the least integer that is not a double
BigInt == Integer(1, 1)

\* the values a caller passes: every kind moveit switches on, at the top
\* level or in a table
ArgValues ==
    { Nil, BigInt, Function("print"),
      Tmpl(<<Pair(Integer(0, 1), Bool(TRUE)),
             Pair(Str(<<"a">>), LightUD("0x1")),
             Pair(Tmpl(<<>>), Bool(FALSE)),
             Pair(Str(<<"b">>), Tmpl(<<Pair(Float(0, 3), Str(<<"a", NUL, "b">>))>>))>>),
      Tmpl(<<Pair(Integer(0, 1), Integer(0, 2)),
             Pair(Str(<<"x">>), Tmpl(<<Pair(Integer(0, 1), Thread)>>))>>) }

ArgLists == UNION {[1..n -> ArgValues] : n \in 0..MaxArgs}

\* the source texts given to loadstring and dostring; the last does not
\* compile
Sources ==
    { "return ...", "error('boom')", "error(42)", "error({})",
      "return 1, function() end", "return function() end",
      "return {x = function() end}", "return 1 +" }

\* the files given to loadfile and dofile; id.lua holds the text "return ..."
Files == {"id.lua", "missing.lua"}
FileText(path) == "return ..."

\* what a compiled chunk does when it is called: it returns values, or it
\* raises an error value; libs tells that it calls the library function error
Body(text) ==
    CASE text = "return ..." -> [do |-> "return ...", libs |-> FALSE]
      [] text = "error('boom')" ->
            [do |-> "error", libs |-> TRUE,
             val |-> Str(<<"[string \"error('boom')\"]:1: ", "boom">>)]
      [] text = "error(42)" ->
            [do |-> "error", libs |-> TRUE, val |-> Integer(0, 42)]
      [] text = "error({})" -> [do |-> "error", libs |-> TRUE, val |-> Tmpl(<<>>)]
      [] text = "return 1, function() end" ->
            [do |-> "return", libs |-> FALSE,
             vals |-> <<Integer(0, 1), Function("anonymous")>>]
      [] text = "return function() end" ->
            [do |-> "return", libs |-> FALSE, vals |-> <<Function("anonymous")>>]
      [] text = "return {x = function() end}" ->
            [do |-> "return", libs |-> FALSE,
             vals |-> <<Tmpl(<<Pair(Str(<<"x">>), Function("anonymous"))>>)>>]

\* ----------------------------------------------------- status codes ----
LUA_OK == 0
LUA_ERRRUN == 2
LUA_ERRSYNTAX == 3
LUA_ERRMEM == 4
LUA_ERRFILE == 6
LUA_NOREF == -2

\* the codes of lua_gc (Lua 5.4, where LUA_GCINC and LUA_GCGEN are defined)
LUA_GCSTOP == 0
LUA_GCRESTART == 1
LUA_GCCOLLECT == 2
LUA_GCSTEP == 5
LUA_GCISRUNNING == 9
LUA_GCGEN == 10
LUA_GCINC == 11

\* the modes given to gc, and the tunables given after the mode
GcModes ==
    {LUA_GCSTOP, LUA_GCCOLLECT, LUA_GCSTEP, LUA_GCISRUNNING, LUA_GCGEN,
     LUA_GCINC}
GcTunables == {<<>>, <<100>>, <<0, 200, 13>>}

\* ------------------------------------------- registry and references ---
\* The array part of the sandbox's registry, with the free list luaL_ref
\* keeps in it: a released slot holds the index of the next free slot.
EmptyRegistry == [a |-> <<>>, free |-> 0]

\* luaL_ref(state->L, LUA_REGISTRYINDEX) of a non-nil value v
luaL_ref(reg, v) ==
    IF reg.free # 0
    THEN [ref |-> reg.free,
          reg |-> [a |-> [reg.a EXCEPT ![reg.free] = v],
                   free |-> reg.a[reg.free].lo]]
    ELSE [ref |-> Len(reg.a) + 1, reg |-> [a |-> Append(reg.a, v), free |-> 0]]

\* luaL_unref: nothing for LUA_NOREF (ref < 0)
luaL_unref(reg, ref) ==
    IF ref >= 0
    THEN [a |-> [reg.a EXCEPT ![ref] = Integer(0, reg.free)], free |-> ref]
    ELSE reg

\* lua_rawgeti(state->L, LUA_REGISTRYINDEX, ref)
lua_rawgeti(m, reg, ref) ==
    Push(m, "S", IF ref \in 1..Len(reg.a) THEN reg.a[ref] ELSE Nil)

\* ---------------------------------------------------- load and call ----
\* luaL_loadbuffer on the sandbox: the compiled chunk, or the message
luaL_loadbuffer(m, text, mem) ==
    IF mem = "oom"
    THEN [Push(m, "S", Str(<<"not enough memory">>)) EXCEPT !.rc = LUA_ERRMEM]
    ELSE IF text = "return 1 +"
    THEN [Push(m, "S", Str(<<"[string \"", text, "\"]:1: ",
                             "unexpected symbol near <eof>">>))
            EXCEPT !.rc = LUA_ERRSYNTAX]
    ELSE [Push(m, "S", Function(text)) EXCEPT !.rc = LUA_OK]

\* luaL_loadfile on the sandbox
luaL_loadfile(m, path, mem) ==
    IF path = "missing.lua"
    THEN [Push(m, "S", Str(<<"cannot open ", path>>)) EXCEPT !.rc = LUA_ERRFILE]
    ELSE luaL_loadbuffer(m, FileText(path), mem)

\* loadfn: loadstring or loadfile
loadfn(m, fn, s, mem) ==
    IF fn = "loadfile" THEN luaL_loadfile(m, s, mem)
    ELSE luaL_loadbuffer(m, s, mem)

\* the decimal digits of a natural number, one run per digit
RECURSIVE Digits(_)
Digits(n) ==
    LET d == <<"0", "1", "2", "3", "4", "5", "6", "7", "8", "9">>
    IN  IF n < 10 THEN <<d[n + 1]>> ELSE Append(Digits(n \div 10), d[(n % 10) + 1])

\* luaL_checklstring(L, idx): a string is read, a number is converted in
\* place, and any other value raises an error in that state
CanCheckString(v) == v.t \in {"string", "number"}
luaL_checklstring(v) ==
    IF v.t = "string" THEN lua_tolstring(v)
    ELSE LET s == IF v.sub = "float" THEN Digits(v.lo) \o <<".0">>
                  ELSE Digits(v.lo)
         IN  [p |-> s, len |-> Len(s)]

\* lua_pcall(state->L, nargs, LUA_MULTRET, 0): the function and its nargs
\* arguments are popped, and the results or the error value are pushed
lua_pcall(m, nargs, libs) ==
    LET top  == Len(m.stk.S)
        f    == m.stk.S[top - nargs]
        args == SubSeq(m.stk.S, top - nargs + 1, top)
        m0   == lua_settop(m, "S", top - nargs - 1)
    IN  IF f.t # "function"
        THEN [Push(m0, "S", Str(<<"attempt to call a ", f.t, " value">>))
                EXCEPT !.rc = LUA_ERRRUN]
        ELSE LET b == Body(f.f)
             IN  IF b.libs /\ ~libs
                 THEN [Push(m0, "S", Str(<<"attempt to call a nil value ",
                                           "(global 'error')">>))
                         EXCEPT !.rc = LUA_ERRRUN]
                 ELSE IF b.do = "error"
                 THEN [Build(m0, "S", b.val) EXCEPT !.rc = LUA_ERRRUN]
                 ELSE IF b.do = "return ..."
                 THEN [BuildAll(m0, "S", args, 1) EXCEPT !.rc = LUA_OK]
                 ELSE [BuildAll(m0, "S", b.vals, 1) EXCEPT !.rc = LUA_OK]

\* loadit(src, dst, idx, fn)
loadit(m, idx, fn, mem) ==
    LET s  == luaL_checklstring(index2value(m, "L", idx)).p[1]
        m1 == lua_settop(m, "S", 0)
        m2 == loadfn(m1, fn, s, mem)
    IN  IF m2.rc # 0
        THEN LET e  == luaL_checklstring(index2value(m2, "S", 1))
                 m3 == lua_pushboolean(m2, "L", FALSE)
                 m4 == lua_pushlstring(m3, "L", e.p, e.len)
                 m5 == lua_pushinteger(m4, "L", m2.rc)
             IN  [m5 EXCEPT !.rc = 3]
        ELSE [m2 EXCEPT !.rc = 0]

\* -------------------------------------------------------- handlers -----
\* Each handler is given the machine at its entry (the caller's frame on
\* L: the handle at 1, then the arguments) and yields the machine at its
\* exit with the number of values it returns in rc, or, when it goes on
\* into runit, the machine at the lua_pcall of runit (to = "pcall"); reg and
\* ref are the registry of the sandbox and state->ref_fn at that point.

\* a variant of run_lua: the stack of the sandbox is not cleared first
run_lua_no_settop(m, reg, ref) ==
    LET m2 == lua_rawgeti(m, reg, ref)
        m3 == moveit(m2, "L", "S", 2, lua_gettop(m2, "L"))
    IN  IF m3.rc # 0
        THEN [m |-> [lua_settop(m3, "S", 0) EXCEPT !.rc = m3.rc],
              to |-> "returned", reg |-> reg, ref |-> ref]
        ELSE [m |-> m3, to |-> "pcall", reg |-> reg, ref |-> ref]

\* a variant of run_lua: the outcome of the transfer of the arguments is
\* not looked at
run_lua_ignores_rc(m, reg, ref) ==
    LET m1 == lua_settop(m, "S", 0)
        m2 == lua_rawgeti(m1, reg, ref)
        m3 == moveit(m2, "L", "S", 2, lua_gettop(m2, "L"))
    IN  [m |-> m3, to |-> "pcall", reg |-> reg, ref |-> ref]

\* a variant of run_lua: a handle with no chunk pinned is refused like a
\* value that cannot be exchanged
run_lua_checks_ref(m, reg, ref) ==
    LET m1 == lua_settop(m, "S", 0)
        m2 == lua_rawgeti(m1, reg, ref)
        m3 == moveit(m2, "L", "S", 2, lua_gettop(m2, "L"))
        e0 == lua_pushboolean(m1, "L", FALSE)
        e1 == lua_pushlstring(e0, "L", <<"no entry point">>, 1)
        e2 == lua_pushinteger(e1, "L", -1)
    IN  IF ref = LUA_NOREF
        THEN [m |-> [e2 EXCEPT !.rc = 3],
              to |-> "returned", reg |-> reg, ref |-> ref]
        ELSE IF m3.rc # 0
        THEN [m |-> [lua_settop(m3, "S", 0) EXCEPT !.rc = m3.rc],
              to |-> "returned", reg |-> reg, ref |-> ref]
        ELSE [m |-> m3, to |-> "pcall", reg |-> reg, ref |-> ref]

\* run_lua, up to the call of runit
run_lua(m, reg, ref) ==
    LET m1 == lua_settop(m, "S", 0)
        m2 == lua_rawgeti(m1, reg, ref)
        m3 == moveit(m2, "L", "S", 2, lua_gettop(m2, "L"))
    IN  IF m3.rc # 0
        THEN [m |-> [lua_settop(m3, "S", 0) EXCEPT !.rc = m3.rc],
              to |-> "returned", reg |-> reg, ref |-> ref]
        ELSE [m |-> m3, to |-> "pcall", reg |-> reg, ref |-> ref]

\* a variant of do_lua: the compiled chunk is pinned as load_lua pins it,
\* and read back for the call
do_lua_pins(m, reg, ref, fn, mem) ==
    LET m1 == loadit(m, 2, fn, mem)
        r  == luaL_ref(luaL_unref(reg, ref), index2value(m1, "S", -1))
        m2 == IF m1.rc # 0 THEN m1
              ELSE moveit(m1, "L", "S", 3, lua_gettop(m1, "L"))
    IN  IF m2.rc # 0
        THEN [m |-> [lua_settop(m2, "S", 0) EXCEPT !.rc = m2.rc],
              to |-> "returned", reg |-> reg, ref |-> ref]
        ELSE [m |-> m2, to |-> "pcall", reg |-> r.reg, ref |-> r.ref]

\* do_lua, up to the call of runit
do_lua(m, reg, ref, fn, mem) ==
    LET m1 == loadit(m, 2, fn, mem)
        m2 == IF m1.rc # 0 THEN m1
              ELSE moveit(m1, "L", "S", 3, lua_gettop(m1, "L"))
    IN  IF m2.rc # 0
        THEN [m |-> [lua_settop(m2, "S", 0) EXCEPT !.rc = m2.rc],
              to |-> "returned", reg |-> reg, ref |-> ref]
        ELSE [m |-> m2, to |-> "pcall", reg |-> reg, ref |-> ref]

\* a variant of load_lua: the old chunk is released before the new one is
\* compiled
load_lua_unref_first(m, reg, ref, fn, mem) ==
    LET reg0 == luaL_unref(reg, ref)
        m1   == loadit(m, 2, fn, mem)
    IN  IF m1.rc # 0
        THEN [m |-> [lua_settop(m1, "S", 0) EXCEPT !.rc = m1.rc],
              reg |-> reg0, ref |-> LUA_NOREF]
        ELSE LET r  == luaL_ref(reg0, index2value(m1, "S", -1))
                 m2 == lua_pop(m1, "S", 1)
                 m3 == lua_pushboolean(m2, "L", TRUE)
             IN  [m |-> [m3 EXCEPT !.rc = 1], reg |-> r.reg, ref |-> r.ref]

\* a variant of load_lua: a chunk is pinned only while none is pinned
load_lua_pin_once(m, reg, ref, fn, mem) ==
    LET m1 == loadit(m, 2, fn, mem)
    IN  IF m1.rc # 0
        THEN [m |-> [lua_settop(m1, "S", 0) EXCEPT !.rc = m1.rc],
              reg |-> reg, ref |-> ref]
        ELSE LET r  == IF ref >= 0 THEN [reg |-> reg, ref |-> ref]
                       ELSE luaL_ref(reg, index2value(m1, "S", -1))
                 m2 == lua_pop(m1, "S", 1)
                 m3 == lua_pushboolean(m2, "L", TRUE)
             IN  [m |-> [m3 EXCEPT !.rc = 1], reg |-> r.reg, ref |-> r.ref]

\* a variant of load_lua: the new chunk is pinned and the old one is not
\* released
load_lua_no_unref(m, reg, ref, fn, mem) ==
    LET m1 == loadit(m, 2, fn, mem)
    IN  IF m1.rc # 0
        THEN [m |-> [lua_settop(m1, "S", 0) EXCEPT !.rc = m1.rc],
              reg |-> reg, ref |-> ref]
        ELSE LET r  == luaL_ref(reg, index2value(m1, "S", -1))
                 m2 == lua_pop(m1, "S", 1)
                 m3 == lua_pushboolean(m2, "L", TRUE)
             IN  [m |-> [m3 EXCEPT !.rc = 1], reg |-> r.reg, ref |-> r.ref]

\* load_lua: the machine, the registry and ref_fn at its exit
load_lua(m, reg, ref, fn, mem) ==
    LET m1 == loadit(m, 2, fn, mem)
    IN  IF m1.rc # 0
        THEN [m |-> [lua_settop(m1, "S", 0) EXCEPT !.rc = m1.rc],
              reg |-> reg, ref |-> ref]
        ELSE LET r  == luaL_ref(luaL_unref(reg, ref), index2value(m1, "S", -1))
                 m2 == lua_pop(m1, "S", 1)
                 m3 == lua_pushboolean(m2, "L", TRUE)
             IN  [m |-> [m3 EXCEPT !.rc = 1], reg |-> r.reg, ref |-> r.ref]

\* runit, line 112: the protected call
runit_pcall(m, libs) == lua_pcall(m, lua_gettop(m, "S") - 1, libs)

\* runit, lines 115-121: the call failed with status rc and the error value
\* is a string or a number
runit_failed(m, status) ==
    LET e  == luaL_checklstring(index2value(m, "S", 1))
        m0 == [m EXCEPT !.stk.S[1] = Str(e.p)]
        m1 == lua_pushboolean(m0, "L", FALSE)
        m2 == lua_pushlstring(m1, "L", e.p, e.len)
        m3 == lua_pushinteger(m2, "L", status)
    IN  [m3 EXCEPT !.rc = 3]

\* a variant of runit_results: the count of the results is returned without
\* the success flag
runit_results_nres(m) ==
    LET m1   == lua_pushboolean(m, "L", TRUE)
        nres == lua_gettop(m1, "S")
    IN  IF nres # 0
        THEN LET m2 == moveit(m1, "S", "L", 1, nres)
                 m3 == lua_settop(m2, "S", 0)
             IN  IF m2.rc # 0 THEN [m3 EXCEPT !.rc = m2.rc]
                 ELSE [m3 EXCEPT !.rc = nres]
        ELSE [m1 EXCEPT !.rc = 1]

\* runit, lines 123-133: the call succeeded
runit_results(m) ==
    LET m1   == lua_pushboolean(m, "L", TRUE)
        nres == lua_gettop(m1, "S")
    IN  IF nres # 0
        THEN LET m2 == moveit(m1, "S", "L", 1, nres)
                 m3 == lua_settop(m2, "S", 0)
             IN  IF m2.rc # 0 THEN [m3 EXCEPT !.rc = m2.rc]
                 ELSE [m3 EXCEPT !.rc = 1 + nres]
        ELSE [m1 EXCEPT !.rc = 1 + nres]

\* luaL_optinteger(L, idx, def)
luaL_optinteger(m, idx, def) ==
    IF idx <= lua_gettop(m, "L") /\ index2value(m, "L", idx) # Nil
    THEN index2value(m, "L", idx).lo
    ELSE def

\* gc_lua: the call of lua_gc it makes on state->L, as the code it passes
\* first (what) and the arguments it passes after it
gc_lua_call(m) ==
    LET what == index2value(m, "L", 2).lo
        arg  == luaL_optinteger(m, 3, 0)
    IN  IF what = LUA_GCISRUNNING THEN [what |-> what, args |-> <<0>>]
        ELSE IF what = LUA_GCINC
        THEN LET pause    == arg
                 stepmul  == luaL_optinteger(m, 4, 0)
                 stepsize == luaL_optinteger(m, 5, 0)
             IN  [what |-> pause, args |-> <<stepmul, stepsize>>]
        ELSE IF what = LUA_GCGEN
        THEN LET minormul == arg
                 majormul == luaL_optinteger(m, 4, 0)
             IN  [what |-> minormul, args |-> <<majormul>>]
        ELSE [what |-> what, args |-> <<arg>>]

\* what lua_gc can return for the code it is given; the collector of the
\* sandbox is not modelled, so the outcomes that depend on it are all drawn
\* (the codes 3, 4, 6, 7 and 8 are not among the inputs)
lua_gc(what) ==
    IF what \in {LUA_GCSTOP, LUA_GCRESTART, LUA_GCCOLLECT} THEN {0}
    ELSE IF what \in {LUA_GCSTEP, LUA_GCISRUNNING} THEN {0, 1}
    ELSE IF what \in {LUA_GCGEN, LUA_GCINC} THEN {LUA_GCGEN, LUA_GCINC}
    ELSE {-1}

\* gc_lua: the result res of lua_gc is pushed, and one value is returned
gc_lua(m, res) ==
    LET what == index2value(m, "L", 2).lo
    IN  IF what = LUA_GCISRUNNING
        THEN [lua_pushboolean(m, "L", res # 0) EXCEPT !.rc = 1]
        ELSE [lua_pushinteger(m, "L", res) EXCEPT !.rc = 1]

\* the tables reachable from a set of tables
RECURSIVE Reach(_, _)
Reach(h, ids) ==
    LET vals(i) == UNION {{h[i].ent[j].k, h[i].ent[j].v} : j \in DOMAIN h[i].ent}
        nxt == ids \cup UNION {{v.id : v \in {w \in vals(i) : w.t = "table"}} : i \in ids}
    IN  IF nxt = ids THEN ids ELSE Reach(h, nxt)

\* the tables a sequence of values refers to
TablesOf(vs) == {vs[i].id : i \in {j \in DOMAIN vs : vs[j].t = "table"}}

\* the heap without the tables that no value of vs reaches
Collect(h, vs) == [i \in Reach(h, TablesOf(vs)) |-> h[i]]

\* ------------------------------------------------------------ state ----
VARIABLES
    sandbox,     \* state->L: "none" before new and after __gc, else "open"
    openlibs,    \* whether luaL_openlibs was called on state->L
    ref_fn,      \* state->ref_fn
    registry,    \* the registry of state->L
    Sstack,      \* the stack of state->L
    Lstack,      \* the caller's stack, the frame of the running handler
    heap,        \* the tables of both states
    pc,          \* "idle", "pcall", "called", "returned", "panic", "apicheck";
                 \* for moveit alone "moveit", "moved", "overflow"
    op,          \* the handler that runs, "none" between two calls
    rc,          \* the status lua_pcall returned in runit
    ret,         \* the values the handler returned to its caller
    lastLoaded,  \* history: the text of the last chunk load_lua pinned
    replaced,    \* history: load_lua released a pinned chunk for that one
    gccall       \* the call of lua_gc the running handler made, or NoCall

vars == <<sandbox, openlibs, ref_fn, registry, Sstack, Lstack, heap, pc, op,
          rc, ret, lastLoaded, replaced, gccall>>

NoCall == [what |-> -1, args |-> <<>>]

Handle == Userdata("newstate")

Init ==
    /\ sandbox = "none"
    /\ openlibs = FALSE
    /\ ref_fn = LUA_NOREF
    /\ registry = EmptyRegistry
    /\ Sstack = <<>>
    /\ Lstack = <<>>
    /\ heap = EmptyHeap
    /\ pc = "idle"
    /\ op = "none"
    /\ rc = LUA_OK
    /\ ret = <<>>
    /\ lastLoaded = "none"
    /\ replaced = FALSE
    /\ gccall = NoCall

\* the caller's frame at the entry of a handler: the arguments on L
Frame(xs) == BuildAll(Machine(<<>>, Sstack, heap), "L", xs, 1)

\* The handler returns n values: the n values on top of L.
ReturnTop(m, n, f) ==
    /\ n <= Len(m.stk.L)
    /\ ret' = SubSeq(m.stk.L, Len(m.stk.L) - n + 1, Len(m.stk.L))
    /\ pc' = "returned"

\* It returns more values than its frame holds: the behaviour is undefined.
\* Without API checks the values under the frame are returned, the first of
\* them the C function; with LUA_USE_APICHECK the process is aborted.
ReturnUnder(m, n, f) ==
    /\ n = Len(m.stk.L) + 1
    /\ ret' = <<Function(f)>> \o m.stk.L
    /\ pc' = "returned"

ReturnAbort(m, n, f) ==
    /\ n > Len(m.stk.L)
    /\ ret' = <<>>
    /\ pc' = "apicheck"

Return(m, n, f) ==
    ReturnTop(m, n, f) \/ ReturnUnder(m, n, f) \/ ReturnAbort(m, n, f)

\* new_lua
new_lua ==
    /\ pc = "idle" /\ sandbox = "none"
    /\ \E libs \in BOOLEAN, alloc \in {"ok", "null", "openlibs"} :
          /\ op' = "new"
          /\ IF alloc = "ok" \/ (alloc = "openlibs" /\ ~libs)
             THEN /\ sandbox' = "open"
                  /\ openlibs' = libs
                  /\ ref_fn' = LUA_NOREF
                  /\ ret' = <<Handle>>
                  /\ pc' = "returned"
             ELSE IF alloc = "null"
             THEN /\ ret' = <<Nil>>
                  /\ pc' = "returned"
                  /\ UNCHANGED <<sandbox, openlibs, ref_fn>>
             ELSE \* luaL_openlibs(state->L) runs out of memory: the error is
                  \* raised in the new state, where nothing catches it; its
                  \* panic function runs and the process is aborted
                  /\ sandbox' = "open"
                  /\ ret' = <<>>
                  /\ pc' = "panic"
                  /\ UNCHANGED <<openlibs, ref_fn>>
          /\ Lstack' = ret'
    /\ UNCHANGED <<registry, Sstack, heap, rc, lastLoaded, replaced, gccall>>

\* gc__lua: lua_close
gc__lua ==
    /\ pc = "idle" /\ sandbox = "open"
    /\ op' = "__gc"
    /\ sandbox' = "none"
    /\ registry' = EmptyRegistry
    /\ Sstack' = <<>>
    /\ Lstack' = <<Handle>>
    /\ ret' = <<>>
    /\ pc' = "returned"
    /\ lastLoaded' = "none"
    /\ replaced' = FALSE
    /\ UNCHANGED <<openlibs, ref_fn, heap, rc, gccall>>

\* loadstring_lua, loadfile_lua
load_call ==
    /\ pc = "idle" /\ sandbox = "open"
    /\ \E fn \in {"loadstring", "loadfile"}, mem \in {"ok", "oom"} :
       \E s \in (IF fn = "loadfile" THEN Files ELSE Sources) :
          LET r == load_lua(Frame(<<Handle, Str(<<s>>)>>), registry, ref_fn, fn, mem)
          IN  /\ op' = fn
              /\ registry' = r.reg
              /\ ref_fn' = r.ref
              /\ Sstack' = r.m.stk.S
              /\ Lstack' = r.m.stk.L
              /\ heap' = r.m.heap
              /\ lastLoaded' = IF r.m.rc # 1 THEN lastLoaded
                               ELSE IF fn = "loadfile" THEN FileText(s) ELSE s
              /\ replaced' = IF r.m.rc # 1 THEN replaced ELSE ref_fn >= 0
              /\ Return(r.m, r.m.rc, fn)
    /\ UNCHANGED <<sandbox, openlibs, rc, gccall>>

\* what run_lua and do_lua have in common after their own part
Enter(r, f) ==
    /\ Sstack' = r.m.stk.S
    /\ Lstack' = r.m.stk.L
    /\ heap' = r.m.heap
    /\ registry' = r.reg
    /\ ref_fn' = r.ref
    /\ IF r.to = "pcall" THEN pc' = "pcall" /\ ret' = <<>>
       ELSE Return(r.m, r.m.rc, f)
    /\ UNCHANGED <<sandbox, openlibs, rc, lastLoaded, replaced, gccall>>

\* run_lua
run_call ==
    /\ pc = "idle" /\ sandbox = "open"
    /\ \E args \in ArgLists :
          /\ op' = "run"
          /\ Enter(run_lua(Frame(<<Handle>> \o args), registry, ref_fn), "run")

\* dostring_lua, dofile_lua (a failure of allocation while the chunk is
\* compiled is drawn in load_call, which runs the same loadit)
do_call ==
    /\ pc = "idle" /\ sandbox = "open"
    /\ \E fn \in {"loadstring", "loadfile"}, args \in ArgLists :
       \E s \in (IF fn = "loadfile" THEN Files ELSE Sources) :
          LET f == IF fn = "loadfile" THEN "dofile" ELSE "dostring"
          IN  /\ op' = f
              /\ Enter(do_lua(Frame(<<Handle, Str(<<s>>)>> \o args),
                                 registry, ref_fn, fn, "ok"), f)

\* gc_lua
gc_call ==
    /\ pc = "idle" /\ sandbox = "open"
    /\ \E what \in GcModes, a \in GcTunables :
          LET m0 == Frame(<<Handle, Integer(0, what)>> \o
                          [i \in 1..Len(a) |-> Integer(0, a[i])])
              c  == gc_lua_call(m0)
          IN  \E res \in lua_gc(c.what) :
                 LET m == gc_lua(m0, res)
                 IN  /\ op' = "gc"
                     /\ gccall' = c
                     /\ Lstack' = m.stk.L
                     /\ Return(m, m.rc, "gc")
    /\ UNCHANGED <<sandbox, openlibs, ref_fn, registry, Sstack, heap, rc,
                   lastLoaded, replaced>>

\* runit: lua_pcall
runit_call ==
    /\ pc = "pcall"
    /\ LET m == runit_pcall(Machine(Lstack, Sstack, heap), openlibs)
       IN  /\ Sstack' = m.stk.S
           /\ heap' = m.heap
           /\ rc' = m.rc
    /\ pc' = "called"
    /\ UNCHANGED <<sandbox, openlibs, ref_fn, registry, Lstack, op, ret,
                   lastLoaded, replaced, gccall>>

\* runit after a call that failed: luaL_checklstring(dst, 1) raises an error
\* in the sandbox when the error value is no string and no number; nothing
\* catches it there, the panic function runs and the process is aborted
runit_error ==
    /\ pc = "called" /\ rc # 0
    /\ IF CanCheckString(Sstack[1])
       THEN LET m == runit_failed(Machine(Lstack, Sstack, heap), rc)
            IN  /\ Sstack' = m.stk.S
                /\ Lstack' = m.stk.L
                /\ Return(m, m.rc, op)
       ELSE /\ pc' = "panic"
            /\ UNCHANGED <<Sstack, Lstack, ret>>
    /\ UNCHANGED <<sandbox, openlibs, ref_fn, registry, heap, op, rc,
                   lastLoaded, replaced, gccall>>

\* runit after a call that succeeded
runit_return ==
    /\ pc = "called" /\ rc = 0
    /\ LET m == runit_results(Machine(Lstack, Sstack, heap))
       IN  /\ Sstack' = m.stk.S
           /\ Lstack' = m.stk.L
           /\ heap' = m.heap
           /\ Return(m, m.rc, op)
    /\ UNCHANGED <<sandbox, openlibs, ref_fn, registry, op, rc, lastLoaded,
                   replaced, gccall>>

\* the caller takes the returned values and goes on: the frame of the
\* handler is gone, and so is every table nothing refers to any more
Continue ==
    /\ pc = "returned"
    /\ pc' = "idle"
    /\ Lstack' = <<>>
    /\ ret' = <<>>
    /\ heap' = Collect(heap, Sstack \o registry.a)
    /\ gccall' = NoCall
    /\ op' = "none"
    /\ UNCHANGED <<sandbox, openlibs, ref_fn, registry, Sstack, rc,
                   lastLoaded, replaced>>

Next ==
    \/ new_lua
    \/ gc__lua
    \/ load_call
    \/ run_call
    \/ do_call
    \/ gc_call
    \/ runit_call
    \/ runit_error
    \/ runit_return
    \/ Continue

Spec == Init /\ [][Next]_vars

\* the kinds moveit refuses
Refused == {"function", "userdata", "thread"}

\* every value met when the values vs are traversed, tables included
Traversed(h, vs) ==
    {vs[i] : i \in DOMAIN vs} \cup
    UNION {UNION {{h[t].ent[j].k, h[t].ent[j].v} : j \in DOMAIN h[t].ent} :
             t \in Reach(h, TablesOf(vs))}

\* no value of a refused kind is met when vs is traversed
Transferable(h, vs) == \A v \in Traversed(h, vs) : v.t \notin Refused

\* ------------------------------------------- moveit on its own ----------
\* The same variables, for moveit alone: Lstack is the stack of src, Sstack
\* the stack of dst, op the call that is made and rc what it returns.

\* a table that holds itself, a table that holds a table that holds it, and
\* a table that holds one table twice
GraphSources ==
    { Machine(<<TableRef(1)>>, <<>>,
              [i \in {1} |->
                 [owner |-> "L",
                  ent |-> <<Pair(Str(<<"self">>), TableRef(1))>>]]),
      Machine(<<Integer(0, 1), TableRef(1)>>, <<>>,
              [i \in {1, 2} |->
                 [owner |-> "L",
                  ent |-> IF i = 1 THEN <<Pair(Integer(0, 1), TableRef(2))>>
                          ELSE <<Pair(Str(<<"up">>), TableRef(1))>>]]),
      Machine(<<TableRef(1)>>, <<>>,
              [i \in {1, 2} |->
                 [owner |-> "L",
                  ent |-> IF i = 1
                          THEN <<Pair(Str(<<"a">>), TableRef(2)),
                                 Pair(Str(<<"b">>), TableRef(2))>>
                          ELSE <<Pair(Integer(0, 1), Bool(TRUE))>>]]) }

\* the stacks moveit is given as src
MoveitSources ==
    {BuildAll(Machine(<<>>, <<>>, EmptyHeap), "L", xs, 1) : xs \in ArgLists}
        \cup GraphSources

\* the calls of moveit: from the bottom or from the second value to the top
\* (run_lua, runit), and with indexes relative to the top (the table case)
MoveitCalls == {"moveit(1, top)", "moveit(2, top)", "moveit(-top, -1)",
                "moveit(-2, -1)"}

FirstIndex(call, top) ==
    CASE call = "moveit(1, top)" -> 1
      [] call = "moveit(2, top)" -> 2
      [] call = "moveit(-top, -1)" -> 0 - top
      [] call = "moveit(-2, -1)" -> -2

LastIndex(call, top) ==
    IF call \in {"moveit(1, top)", "moveit(2, top)"} THEN top ELSE -1

\* the call names values of a stack of this height
CallFits(call, top) ==
    CASE call = "moveit(1, top)" -> TRUE
      [] call = "moveit(2, top)" -> top >= 1
      [] call = "moveit(-top, -1)" -> top >= 1
      [] call = "moveit(-2, -1)" -> top >= 2

\* the values of the stack stk a call of moveit is to copy
Range(stk, call) ==
    LET top == Len(stk)
        f   == FirstIndex(call, top)
        l   == LastIndex(call, top)
        af  == IF f > 0 THEN f ELSE top + 1 + f
        al  == IF l >= 0 THEN l ELSE top + 1 + l
    IN  IF af > al THEN <<>> ELSE SubSeq(stk, af, al)

\* the tables a table holds
Children(h, id) ==
    TablesOf([j \in DOMAIN h[id].ent |-> h[id].ent[j].k]) \cup
    TablesOf([j \in DOMAIN h[id].ent |-> h[id].ent[j].v])

\* the traversal of vs has no end: a table met in it is reachable from
\* itself, and no value is refused on the way
Endless(h, vs) ==
    /\ Transferable(h, vs)
    /\ \E id \in Reach(h, TablesOf(vs)) : id \in Reach(h, Children(h, id))

MoveitInit ==
    /\ sandbox = "open"
    /\ openlibs = FALSE
    /\ ref_fn = LUA_NOREF
    /\ registry = EmptyRegistry
    /\ \E m \in MoveitSources :
          /\ Lstack = m.stk.L
          /\ Sstack = m.stk.S
          /\ heap = m.heap
    /\ pc = "moveit"
    /\ op = "none"
    /\ rc = 0
    /\ ret = <<>>
    /\ lastLoaded = "none"
    /\ replaced = FALSE
    /\ gccall = NoCall

\* moveit(src, dst, idx, eoi) runs to its return
moveit_returns ==
    /\ pc = "moveit"
    /\ \E call \in MoveitCalls :
          /\ CallFits(call, Len(Lstack))
          /\ ~Endless(heap, Range(Lstack, call))
          /\ LET m == moveit(Machine(Lstack, Sstack, heap), "L", "S",
                             FirstIndex(call, Len(Lstack)),
                             LastIndex(call, Len(Lstack)))
             IN  /\ Lstack' = m.stk.L
                 /\ Sstack' = m.stk.S
                 /\ heap' = m.heap
                 /\ rc' = m.rc
          /\ op' = call
          /\ pc' = "moved"
    /\ UNCHANGED <<sandbox, openlibs, ref_fn, registry, ret, lastLoaded,
                   replaced, gccall>>

\* moveit re-enters itself for a table it is already copying (line 86): each
\* level takes a C frame and slots of both stacks, for which no
\* lua_checkstack asks, and no level returns. The stacks overflow: the
\* behaviour is undefined, an aborted API check or a fault of the process.
moveit_overflows ==
    /\ pc = "moveit"
    /\ \E call \in MoveitCalls :
          /\ CallFits(call, Len(Lstack))
          /\ Endless(heap, Range(Lstack, call))
          /\ op' = call
    /\ pc' \in {"apicheck", "overflow"}
    /\ UNCHANGED <<sandbox, openlibs, ref_fn, registry, Sstack, Lstack, heap,
                   rc, ret, lastLoaded, replaced, gccall>>

MoveitNext == moveit_returns \/ moveit_overflows

MoveitSpec == MoveitInit /\ [][MoveitNext]_vars

\* ------------------------------------------------ properties checked ---
\* the message of a refused transfer
RejectMsg(kind) == Str(<<"cannot exchange <", kind, "> value">>)

\* the failure a refused transfer is to give: false, the message, -1
IsRejection(r) ==
    \E kind \in Refused : r = <<Bool(FALSE), RejectMsg(kind), Integer(0, -1)>>

\* the results of runit's protected call are on the sandbox stack
Called == pc = "called"

\* C1: a runtime failure of the called chunk, whatever the error value, never
\* escapes as an uncaught fault: runit returns false, the message and the
\* status of lua_pcall to the caller.
C1_RuntimeFailureIsReturned ==
    [][(Called /\ rc # LUA_OK) =>
          /\ pc' = "returned"
          /\ Len(ret') = 3
          /\ ret'[1] = Bool(FALSE)
          /\ ret'[2].t = "string"
          /\ ret'[3] = Integer(0, rc)]_vars

\* C2: when the chunk returned a value that cannot be transferred, at the top
\* level or nested, the caller is given false, the message naming the kind
\* and -1, and never a success flag with a part of the results.
C2_RefusedResultIsFailure ==
    [][(Called /\ rc = LUA_OK /\ ~Transferable(heap, Sstack)) =>
          (pc' = "returned" /\ IsRejection(ret'))]_vars

\* the handler that starts in this step transfers its arguments (its chunk,
\* if it loads one, compiles) and the transfer is refused
ArgsRefused ==
    /\ pc = "idle"
    /\ op' \in {"run", "dostring", "dofile"}
    /\ op' = "dostring" => Lstack'[2] # Str(<<"return 1 +">>)
    /\ op' = "dofile" => Lstack'[2] # Str(<<"missing.lua">>)
    /\ ~Transferable(heap', Tail(Lstack'))

\* the results of the call are transferred in this step and the transfer is
\* refused
ResultsRefused == Called /\ rc = LUA_OK /\ ~Transferable(heap, Sstack)

\* C3: after a refused transfer, in either direction, nothing that was copied
\* before the refusal is left on the sandbox stack or among the values
\* returned to the caller: those are only false, the message and -1.
C3_RefusalLeavesNoCopy ==
    [][(ArgsRefused \/ ResultsRefused) =>
          /\ Sstack' = <<>>
          /\ \A i \in DOMAIN ret' :
                \/ ret'[i] \in {Bool(FALSE), Integer(0, -1)}
                \/ \E kind \in Refused : ret'[i] = RejectMsg(kind)]_vars

\* the value state->ref_fn refers to, as lua_rawgeti reads it
Pinned == IF ref_fn \in 1..Len(registry.a) THEN registry.a[ref_fn] ELSE Nil

\* loadstring or loadfile starts in this step and reports a failure
LoadFails ==
    /\ pc = "idle"
    /\ op' \in {"loadstring", "loadfile"}
    /\ ret'[1] # Bool(TRUE)

\* what the compiler of the sandbox gives for the text or path s
Compiled(fn, s, mem) == loadfn(Machine(<<>>, <<>>, EmptyHeap), fn, s, mem)

\* C4: a failed loadstring or loadfile (syntax error, unreadable file, memory
\* error) leaves state->ref_fn and the chunk it refers to as they were, and
\* returns false, the compiler's message and its status.
C4_FailedLoadKeepsEntry ==
    [][LoadFails =>
          /\ ref_fn' = ref_fn
          /\ registry' = registry
          /\ Sstack' = <<>>
          /\ pc' = "returned"
          /\ \E mem \in {"ok", "oom"} :
                LET c == Compiled(op', Lstack'[2].s[1], mem)
                IN  /\ c.rc \in {LUA_ERRSYNTAX, LUA_ERRMEM, LUA_ERRFILE}
                    /\ ret' = <<Bool(FALSE), c.stk.S[1], Integer(0, c.rc)>>]_vars

\* a load has just failed on a handle that has a chunk pinned
C4_Witness ==
    /\ pc = "returned"
    /\ op \in {"loadstring", "loadfile"}
    /\ ret[1] = Bool(FALSE)
    /\ Pinned = Function(lastLoaded)

\* C5: the function run calls is the chunk of the last successful loadstring
\* or loadfile, also after that load replaced an earlier chunk.
C5_RunCallsLastLoaded ==
    (pc = "pcall" /\ op = "run" /\ lastLoaded # "none") =>
        Sstack[1] = Function(lastLoaded)

\* run is at its protected call after a load that replaced a pinned chunk
C5_Witness ==
    /\ pc = "pcall"
    /\ op = "run"
    /\ replaced
    /\ Sstack[1] = Function("error('boom')")

\* C6: whenever no handler runs, the stack of the sandbox is empty.
C6_IdleStackEmpty == pc \in {"idle", "returned"} => Sstack = <<>>

\* the copy moveit makes of a on the sandbox is b: the same kind, the same
\* value for a scalar that is no number, for a table a table of the sandbox
IsCopy(a, b) ==
    /\ a.t = b.t
    /\ a.t \in {"nil", "boolean", "lightuserdata", "string"} => a = b
    /\ a.t = "table" => heap[b.id].owner = "S"

\* C7: at the protected call of run the stack of the sandbox holds the
\* pinned chunk and then one copy per argument of this call, nothing else,
\* whatever the earlier operations left.
C7_CallStackIsEntryAndArgs ==
    (pc = "pcall" /\ op = "run") =>
        /\ Len(Sstack) = Len(Lstack)
        /\ Sstack[1] = Pinned
        /\ \A i \in 2..Len(Lstack) : IsCopy(Lstack[i], Sstack[i])

\* run is at its protected call, with two arguments, after a call that
\* failed at run time
C7_Witness ==
    /\ pc = "pcall"
    /\ op = "run"
    /\ rc = LUA_ERRRUN
    /\ Len(Sstack) = 3
    /\ Sstack[2].t = "table"

\* C8: dostring and dofile never change state->ref_fn nor the chunk it
\* refers to, whether they fail or succeed.
C8_DoKeepsEntry ==
    [][(op' \in {"dostring", "dofile"}) =>
          (ref_fn' = ref_fn /\ registry' = registry)]_vars

\* dostring has run another chunk than the pinned one, with success
C8_Witness ==
    /\ pc = "returned"
    /\ op = "dostring"
    /\ Pinned = Function("error('boom')")
    /\ Lstack[2] = Str(<<"return ...">>)
    /\ Len(ret) = 2
    /\ ret[1] = Bool(TRUE)

\* C9: no table reachable from the sandbox (its stack, its registry) was
\* allocated by the caller, and no table reachable from the caller's frame
\* or from the returned values was allocated by the sandbox: a copy shares
\* no table with its source, for keys as for values.
C9_NoSharedTable ==
    /\ \A i \in Reach(heap, TablesOf(Sstack \o registry.a)) : heap[i].owner = "S"
    /\ \A i \in Reach(heap, TablesOf(Lstack \o ret)) : heap[i].owner = "L"

\* a table with a table as a key and a table as a value has gone into the
\* sandbox and come back
C9_Witness ==
    /\ pc = "returned"
    /\ op = "run"
    /\ Len(ret) = 2
    /\ ret[1] = Bool(TRUE)
    /\ ret[2].t = "table"
    /\ ret[2] # Lstack[2]
    /\ \E j, k \in DOMAIN heap[ret[2].id].ent :
          /\ heap[ret[2].id].ent[j].k.t = "table"
          /\ heap[ret[2].id].ent[k].v.t = "table"

\* a and b are equal (scalars) or deeply equal (tables) in the caller's state
RECURSIVE DeepEq(_, _, _)
DeepEq(h, a, b) ==
    IF a.t = "table" /\ b.t = "table"
    THEN LET ea == h[a.id].ent
             eb == h[b.id].ent
         IN  /\ Len(ea) = Len(eb)
             /\ \A i \in DOMAIN ea : \E j \in DOMAIN eb :
                   DeepEq(h, ea[i].k, eb[j].k) /\ DeepEq(h, ea[i].v, eb[j].v)
             /\ \A j \in DOMAIN eb : \E i \in DOMAIN ea :
                   DeepEq(h, ea[i].k, eb[j].k) /\ DeepEq(h, ea[i].v, eb[j].v)
    ELSE RawEq(a, b)

\* C10: with the chunk "return ..." pinned, run(v) returns true and one value
\* that is equal to v, deeply equal for a table.
C10_RoundTrip ==
    [][(Called /\ op = "run" /\ rc = LUA_OK /\ Len(Lstack) = 2
          /\ Pinned = Function("return ...")) =>
          /\ pc' = "returned"
          /\ Len(ret') = 2
          /\ ret'[1] = Bool(TRUE)
          /\ DeepEq(heap', Lstack[2], ret'[2])]_vars

\* b is the copy moveit makes of a: the same kind; a number with the value
\* lua_tonumber reads; any other scalar the same; a table with a copy of
\* every pair and nothing else
RECURSIVE CopyOf(_, _, _)
CopyOf(h, a, b) ==
    IF a.t = "table" /\ b.t = "table"
    THEN LET ea == h[a.id].ent
             eb == h[b.id].ent
         IN  /\ Len(ea) = Len(eb)
             /\ \A i \in DOMAIN ea : \E j \in DOMAIN eb :
                   CopyOf(h, ea[i].k, eb[j].k) /\ CopyOf(h, ea[i].v, eb[j].v)
    ELSE IF a.t = "number" /\ b.t = "number"
    THEN RawEq(lua_tonumber(a), b)
    ELSE a = b

\* C11: when the protected call succeeded with n results that can all be
\* transferred, the handler returns true and then exactly n values, the i-th
\* of them the copy of the i-th result, in the order of the results.
C11_ResultsInOrder ==
    [][(Called /\ rc = LUA_OK /\ Transferable(heap, Sstack)) =>
          /\ pc' = "returned"
          /\ Len(ret') = Len(Sstack) + 1
          /\ ret'[1] = Bool(TRUE)
          /\ \A i \in DOMAIN Sstack :
                CopyOf(heap', Sstack[i], ret'[i + 1])]_vars

\* run has returned true and two results of different kinds, a nil and
\* then a table
C11_Witness ==
    /\ pc = "returned"
    /\ op = "run"
    /\ Len(ret) = 3
    /\ ret[1] = Bool(TRUE)
    /\ ret[2] = Nil
    /\ ret[3].t = "table"

\* the mode the caller of gc gave, and the tunables given after it, with 0
\* for those left out
GivenMode(frame) == frame[2].lo
GivenTunable(frame, i) == IF i + 2 <= Len(frame) THEN frame[i + 2].lo ELSE 0

\* gc starts in this step
GcStarts == pc = "idle" /\ op' = "gc"

\* the frame gc was called with: its frame at the return without the
\* outcome it pushed
GcFrame == SubSeq(Lstack', 1, Len(Lstack') - 1)

\* C12: for every mode, the code gc passes to lua_gc on the sandbox is the
\* mode the caller gave, and the arguments after it (for a mode that takes
\* any) are the caller's tunables in the order given.
C12_GcIsPassthrough ==
    [][GcStarts =>
          /\ gccall'.what = GivenMode(GcFrame)
          /\ GivenMode(GcFrame) # LUA_GCISRUNNING =>
                \A i \in DOMAIN gccall'.args :
                   gccall'.args[i] = GivenTunable(GcFrame, i)]_vars

\* C13: new never ends in an uncaught fault: it returns nil when the sandbox
\* cannot be allocated, and otherwise a handle with no chunk pinned and an
\* empty sandbox stack.
C13_NewNeverRaises ==
    [][(pc = "idle" /\ op' = "new") =>
          /\ pc' = "returned"
          /\ \/ ret' = <<Nil>>
             \/ /\ ret' = <<Handle>>
                /\ sandbox' = "open"
                /\ ref_fn' = LUA_NOREF
                /\ Sstack' = <<>>]_vars

\* the slots of the sandbox's registry that anchor a value (the others are
\* links of the free list of luaL_ref)
Anchors == {i \in DOMAIN registry.a : registry.a[i].t # "number"}

\* C14: the registry of the sandbox anchors no value while no load has
\* succeeded on the handle, and exactly one, the chunk state->ref_fn refers
\* to, ever after; failed loads, dostring and dofile add none.
C14_AtMostOneAnchor ==
    IF lastLoaded = "none" THEN Anchors = {}
    ELSE Anchors = {ref_fn} /\ registry.a[ref_fn] = Function(lastLoaded)

\* a second load has replaced the chunk of the first, and a dostring has
\* run since
C14_Witness ==
    /\ pc = "returned"
    /\ op = "dostring"
    /\ replaced
    /\ Cardinality(Anchors) = 1

\* the kinds of the refused values met when the arguments of the handler
\* that starts in this step are traversed
RefusedArgKinds ==
    {v.t : v \in {w \in Traversed(heap', Tail(Lstack')) : w.t \in Refused}}

\* C15: when the transfer of the arguments of run, dostring or dofile is
\* refused, at the top level or in a table, the handler returns at once,
\* without the protected call, and the last two values it returns are the
\* message naming a refused kind of the arguments and -1.
C15_RefusedArgsNoCall ==
    [][ArgsRefused =>
          /\ pc' = "returned"
          /\ Sstack' = <<>>
          /\ Len(ret') >= 2
          /\ ret'[Len(ret')] = Integer(0, -1)
          /\ \E kind \in RefusedArgKinds :
                ret'[Len(ret') - 1] = RejectMsg(kind)]_vars

\* run has returned the refusal of a thread met in a table of a table
C15_Witness ==
    /\ pc = "returned"
    /\ op = "run"
    /\ Len(ret) >= 2
    /\ ret[Len(ret) - 1] = RejectMsg("thread")
    /\ ret[Len(ret)] = Integer(0, -1)

\* a handler that reports success or failure returns in this step
Reports ==
    /\ pc # "returned"
    /\ pc' = "returned"
    /\ op' \in {"run", "dostring", "dofile", "loadstring", "loadfile"}

\* the three values of a failure: false, a message, a status
FailureShape(r) ==
    /\ Len(r) = 3
    /\ r[1] = Bool(FALSE)
    /\ r[2].t = "string"
    /\ r[3].t = "number"

\* C17: whatever run, dostring, dofile, loadstring or loadfile returns
\* starts with a boolean: true on success, and on every failure false
\* followed by exactly the message and the status.
C17_FailureShape ==
    [][Reports =>
          /\ Len(ret') >= 1
          /\ ret'[1] = Bool(TRUE) \/ FailureShape(ret')]_vars

\* the message of lua_pcall for a call of nil
CallOfNil == Str(<<"attempt to call a ", "nil", " value">>)

\* run is under way on a handle whose ref_fn is still LUA_NOREF
RunWithoutEntry == op = "run" /\ ref_fn = LUA_NOREF

MoveitOk == pc = "moveit" /\ pc' = "moved" /\ rc' = 0

\* C16: a call of moveit that returns 0 has pushed on dst one value per value
\* of the range, the i-th the copy of the i-th, for indexes counted from the
\* bottom and from the top alike, and has left the stack of src, and the
\* tables of src, as they were.
C16_TransferCopiesRange ==
    [][MoveitOk =>
          LET from == Range(Lstack, op')
          IN  /\ Len(Sstack') = Len(Sstack) + Len(from)
              /\ \A i \in DOMAIN from :
                    CopyOf(heap', from[i], Sstack'[Len(Sstack) + i])
              /\ Lstack' = Lstack
              /\ \A id \in DOMAIN heap : heap'[id] = heap[id]]_vars

\* moveit(-2, -1) has copied a nil and a table on top of a stack
C16_Witness ==
    /\ pc = "moved"
    /\ op = "moveit(-2, -1)"
    /\ rc = 0
    /\ Len(Sstack) = 2
    /\ Sstack[1] = Nil
    /\ Sstack[2].t = "table"
    /\ Sstack[2] # Lstack[2]

\* C19: every call of moveit returns, with 0 or with the count of a refusal,
\* also for a table that is reachable from itself and for a table that is
\* reachable by two paths.
C19_MoveitTerminates ==
    [][pc = "moveit" => (pc' = "moved" /\ rc' \in {0, 2, 3})]_vars

=============================================================================
